---- MODULE Spec2Model ----
(***************************************************************************)
(* A model of tools/miniuss/miniuss.py: a simulated USS.  Each inbound     *)
(* request is handled by its own worker thread; the module-level globals   *)
(* (operations, uvrs, notification_logs, always_listen) are shared.  The   *)
(* InterUSS Platform grid and the peer USSs are the environment: each call *)
(* to them either fails (requests.HTTPError / a timeout) or succeeds.      *)
(* Strings that the code inspects character by character (base URLs,       *)
(* message ids) are sequences of one-character strings.                    *)
(***************************************************************************)
EXTENDS Integers, Sequences, FiniteSets, TLC

\* ------------------------------------------------------------------ bounds
\* Every request is handled by a worker thread of its own.
NumWorkers == 2
\* Requests received in a behaviour of NotifySpec.
NotifyRequests == 1
\* Requests received in a behaviour of ControlSpec and of TokenSpec.
ControlRequests == 1

Workers == 1..NumWorkers

\* ------------------------------------------------------- program constants
HTTP_200_OK == 200
HTTP_204_NO_CONTENT == 204
HTTP_400_BAD_REQUEST == 400
HTTP_401_UNAUTHORIZED == 401
HTTP_403_FORBIDDEN == 403
HTTP_404_NOT_FOUND == 404
HTTP_500_INTERNAL_SERVER_ERROR == 500

\* control_authorization, and the Authorization headers a request may carry
\* (<<>> is a request without the header).
control_authorization == "secret"
ControlHeaders == {<<>>, <<"secret">>, <<"wrong">>}

\* grid_client.uss_baseurl and this USS's name in the grid.
uss_baseurl == <<"a">>
SelfUss == "self"

\* Status codes carried by a requests.HTTPError raised by a grid call.
GridErrors == {409, 503}

\* ------------------------------------------------------------ dictionaries
\* A Python dict is a function whose domain is its key set.
EmptyDict == [k \in {} |-> k]

DictPut(d, k, v) == [x \in (DOMAIN d) \cup {k} |-> IF x = k THEN v ELSE d[x]]

DictDel_Clear(d, k) == [x \in {} |-> x]

DictDel(d, k) == [x \in (DOMAIN d) \ {k} |-> d[x]]

\* ------------------------------------------------------------------- UVRs
MsgIdOrder == << <<"x">>, <<"y">> >>
MsgIds == {MsgIdOrder[i] : i \in 1..Len(MsgIdOrder)}

\* A geography is the outer ring of a GeoJSON polygon: points <<lng, lat>>.
Geographies == { << <<0, 1>> >>, << <<1, 0>> >> }

\* JSON bodies of PUT and DELETE /client/uvr/<message_id>.
UvrBodies == [message_id : MsgIds, geography : Geographies, uss_name : {"caller"}]

\* The bodies sent to PUT /client/uvr/<message_id>: the body's own message_id
\* is the one of the path, or (for one geography) another one.
PutBodies(message_id) ==
  {b \in UvrBodies : b.message_id = message_id \/ b.geography = << <<0, 1>> >>}

\* DELETE reads only the geography of its body.
DeleteBodies == {b \in UvrBodies : b.message_id = <<"x">>}

NoUvr == [message_id |-> <<>>, geography |-> <<>>, uss_name |-> "none"]

\* A UVR of the grid that this USS never cached.
ForeignUvr == [message_id |-> <<"y">>, geography |-> << <<1, 0>> >>, uss_name |-> SelfUss]

\* A UVR this USS published earlier: it is in the grid and in the cache.
PublishedUvr == [message_id |-> <<"x">>, geography |-> << <<0, 1>> >>, uss_name |-> SelfUss]

\* The cache and the grid when the first request arrives.
InitialUvrs ==
  { [cache |-> EmptyDict, grid |-> EmptyDict],
    [cache |-> EmptyDict, grid |-> DictPut(EmptyDict, <<"y">>, ForeignUvr)],
    [cache |-> DictPut(EmptyDict, <<"x">>, PublishedUvr),
     grid |-> DictPut(EmptyDict, <<"x">>, PublishedUvr)] }

\* The grid's authoritative copy of an upserted UVR carries owner metadata.
GridCopy(uvr) == [uvr EXCEPT !.uss_name = SelfUss]

\* The UVRs of the grid as the list a response carries.
GridUvrList(g) ==
  LET present(i) == MsgIdOrder[i] \in DOMAIN g
      F[i \in 0..Len(MsgIdOrder)] ==
        IF i = 0 THEN <<>>
        ELSE IF present(i) THEN Append(F[i - 1], g[MsgIdOrder[i]]) ELSE F[i - 1]
  IN F[Len(MsgIdOrder)]

\* interuss_platform.Coord(lat, lng)
Coord(lat, lng) == [lat |-> lat, lng |-> lng]

AreaOf_Unswapped(geography) ==
  [i \in 1..Len(geography) |-> [lat |-> geography[i][1], lng |-> geography[i][2]]]

\* area = [Coord(p[1], p[0]) for p in uvr['geography']['coordinates'][0]]
AreaOf(geography) == [i \in 1..Len(geography) |-> Coord(geography[i][2], geography[i][1])]

\* The grid's area query: the UVRs with a vertex inside the queried area.
Intersects(uvr, area) ==
  \E i \in 1..Len(area), j \in 1..Len(uvr.geography) :
    area[i] = Coord(uvr.geography[j][2], uvr.geography[j][1])

GridUvrsByArea(g, area) ==
  LET hit(u) == Intersects(u, area) IN SelectSeq(GridUvrList(g), hit)

\* [u for u in <list> if u['message_id'] == message_id]
WithMessageId(list, message_id) ==
  LET same(u) == u.message_id = message_id IN SelectSeq(list, same)

\* ----------------------------------------------------------- participants
Operator(uss, url, level) ==
  [uss |-> uss, uss_baseurl |-> url, announcement_level |-> level]

\* grid_contents['data']['operators'] of an upsert_uvr response.
OperatorSnapshots ==
  { << Operator("p1", <<"b">>, "ALL"), Operator(SelfUss, uss_baseurl, "ALL"),
       Operator("p3", <<"d">>, "RESTRICTED"), Operator("p2", <<"c">>, "ALL") >>,
    << Operator("p3", <<"d">>, "RESTRICTED"), Operator("p4", <<"a", "b">>, "ALL") >> }

\* The operators listed while UVR handlers run concurrently.
ConcurrentSnapshots == { << Operator("p1", <<"b">>, "ALL") >> }

\* os.path.join(a, b)
PathJoin(a, b) ==
  IF b # <<>> /\ Head(b) = "/" THEN b
  ELSE IF a = <<>> \/ a[Len(a)] = "/" THEN a \o b
  ELSE a \o <<"/">> \o b

\* url = os.path.join(op['uss_baseurl'], 'uvrs', uvr['message_id'])
NotifyUrl(op, message_id) ==
  PathJoin(PathJoin(op.uss_baseurl, <<"u", "v", "r", "s">>), message_id)

\* Python's  sub in s  on strings
Contains(sub, s) ==
  \E i \in 0..(Len(s) - Len(sub)) : SubSeq(s, i + 1, i + Len(sub)) = sub

\* if grid_client.uss_baseurl in url: continue
SkipsNotify(op, message_id) == Contains(uss_baseurl, NotifyUrl(op, message_id))

\* operators = [op for op in ... if op['announcement_level'] == 'ALL']
AnnounceToAll(ops) ==
  LET all(op) == op.announcement_level = "ALL" IN SelectSeq(ops, all)

\* What requests.put(url, ..., timeout=5) does: a response with a status
\* code, or requests.exceptions.Timeout raised.
PeerOutcomes ==
  { [kind |-> "response", code |-> 204],
    [kind |-> "response", code |-> 503],
    [kind |-> "timeout", code |-> 0] }

\* ------------------------------------------------------------- operations
Gufis == {"g1", "g2"}

\* JSON bodies of PUT /client/operation/<gufi>.
OperationBodies == [gufi : Gufis, state : {"ACCEPTED", "ACTIVATED"}]

\* The paths of PUT /client/operation/<gufi> requests carrying the body: the
\* gufi of the body, or (for one state) another one.
PutPaths(operation) ==
  {g \in Gufis : g = operation.gufi \/ operation.state = "ACCEPTED"}

\* A slippy cell is a string  zoom/x/y.
AlwaysListenConfigured == << <<"1", "/", "2", "/", "3">> >>

\* The characters \d matches, among those of the cells below.
Digits == {"1", "2", "3"}

IsDigits(str) == str # <<>> /\ \A i \in 1..Len(str) : str[i] \in Digits

\* re.match(r'\d+/\d+/\d+', slippy_cell): the pattern matches at the start
\* of the string, whatever follows it.
ReMatchSlippy(cell) ==
  \E i, j, k \in 1..Len(cell) :
    /\ i < j /\ j < k
    /\ cell[i] = "/" /\ cell[j] = "/"
    /\ IsDigits(SubSeq(cell, 1, i - 1))
    /\ IsDigits(SubSeq(cell, i + 1, j - 1))
    /\ IsDigits(SubSeq(cell, j + 1, k))

\* JSON bodies of PUT /client/alwayslisten and DELETE /client/operator_entries.
CellLists ==
  { << <<"3", "/", "2", "/", "1">> >>,
    << <<"x">> >>,
    << <<"1", "/", "2", "/", "3">>, <<"1", "/", "2">> >>,
    << <<"1", "/", "2", "/", "3", "/", "x">> >>,
    << <<"2", "/", "1", "/", "3">>, <<"1", "/", "2", "/", "3">> >> }

\* The index of the first cell of cells the validation rejects, 0 for none.
FirstInvalid(cells) ==
  LET bad == {i \in 1..Len(cells) : ~ReMatchSlippy(cells[i])}
  IN IF bad = {} THEN 0 ELSE CHOOSE i \in bad : \A j \in bad : i <= j

\* The status codes of the responses of grid_client.remove_operator_by_cell.
RemoveOperatorResponses == {200, 404}

\* ------------------------------------------------------------------ state
VARIABLES
  operations,          \* operations: dict GUFI -> operation
  uvrs,                \* uvrs: dict message_id -> UVR
  notification_logs,   \* notification_logs: dict key -> list of entries
  notification_lock,   \* owner of notification_lock, 0 when free
  always_listen,       \* always_listen: list of slippy cells
  grid_uvrs,           \* the grid: message_id -> authoritative UVR
  grid_operator_entry, \* the grid: operations of the last accepted Operator entry
  op_history,          \* the writes to operations, in the order they happened
  pc,                  \* per worker: position in its handler
  req,                 \* per worker: the request being handled
  loc,                 \* per worker: the handler's local variables
  resp,                \* per worker: the response returned
  calls,               \* per worker: grid and peer calls made for this request
  grid_operators,      \* the grid: the operators an upsert_uvr response lists
  started,             \* number of requests received so far
  limit,               \* number of requests the environment sends
  log_states           \* every value notification_logs has had so far

vars == << operations, uvrs, notification_logs, notification_lock, always_listen,
           grid_uvrs, grid_operator_entry, op_history, pc, req, loc, resp, calls,
           grid_operators, started, limit, log_states >>

ops_side == << operations, always_listen, grid_operator_entry, op_history >>
log_side == << notification_logs, notification_lock, log_states >>
env == << grid_operators, limit >>

NoReq == [ep |-> "none", method |-> "none", id |-> <<>>, auth |-> <<>>, body |-> <<>>]

NoEntry == [received |-> 0, source |-> "none", content |-> 0, uss |-> "none", action |-> <<>>]

NoLoc == [uvr |-> NoUvr, operators |-> <<>>, idx |-> 0, notifications |-> EmptyDict,
          op_values |-> {}, cells |-> <<>>, written |-> EmptyDict, mutated |-> FALSE,
          entry |-> NoEntry, history |-> <<>>, items |-> EmptyDict, detached |-> FALSE,
          pending |-> {}, result |-> EmptyDict]

NoResp == [code |-> 0, body |-> <<>>]

Request(ep, method, id, auth, body) ==
  [ep |-> ep, method |-> method, id |-> id, auth |-> auth, body |-> <<body>>]

Response(code, body) == [code |-> code, body |-> body]

\* _validate_control: the status it aborts with, 0 when the request passes.
ValidateControl(auth) ==
  IF auth = <<>> THEN HTTP_401_UNAUTHORIZED
  ELSE IF auth[1] # control_authorization THEN HTTP_403_FORBIDDEN
  ELSE 0

\* return _error(e.response.status_code, str(e)) after upsert_uvr failed
UvrUpsertError_Fixed500(e) == HTTP_500_INTERNAL_SERVER_ERROR

UvrUpsertError(e) == e

\* return _error(e.response.status_code, str(e)) after remove_uvr failed
UvrRemoveError(e) == e

\* The handler of worker w ends with this response.
Finish(w, code, body) ==
  /\ pc' = [pc EXCEPT ![w] = "done"]
  /\ resp' = [resp EXCEPT ![w] = Response(code, body)]

Goto(w, label) ==
  /\ pc' = [pc EXCEPT ![w] = label]
  /\ UNCHANGED resp

Called(w, call) == calls' = [calls EXCEPT ![w] = Append(@, call)]

\* Request number n is handled by worker n.
Receive(w, request) ==
  /\ pc[w] = "idle"
  /\ started < limit
  /\ w = started + 1
  /\ started' = started + 1
  /\ req' = [req EXCEPT ![w] = request]

\* --------------------------------------- PUT /client/uvr/<message_id>
\* _validate_control(); uvr = flask.request.json
UvrPutStart(w) ==
  \E message_id \in MsgIds, auth \in ControlHeaders :
   \E body \in PutBodies(message_id) :
    /\ Receive(w, Request("client_uvr", "PUT", message_id, auth, body))
    /\ IF ValidateControl(auth) # 0
         THEN Finish(w, ValidateControl(auth), <<>>) /\ UNCHANGED loc
         ELSE /\ Goto(w, "uvr_upsert")
              /\ loc' = [loc EXCEPT ![w].uvr = body]
    /\ UNCHANGED << ops_side, log_side, env, uvrs, grid_uvrs, calls >>

\* grid_contents = grid_client.upsert_uvr(uvr), and the selection of the
\* UVR with the request's message_id from the response.
UvrUpsertGrid(w) ==
  /\ pc[w] = "uvr_upsert"
  /\ \/ \E e \in GridErrors :
          /\ Called(w, [fn |-> "upsert_uvr", ok |-> FALSE, code |-> e])
          /\ Finish(w, UvrUpsertError(e), <<>>)
          /\ UNCHANGED << grid_uvrs, loc >>
     \/ LET snapshot == grid_operators
              stored == DictPut(grid_uvrs, loc[w].uvr.message_id, GridCopy(loc[w].uvr))
              found == WithMessageId(GridUvrList(stored), req[w].id)
       IN /\ Called(w, [fn |-> "upsert_uvr", ok |-> TRUE, code |-> HTTP_200_OK])
          /\ grid_uvrs' = stored
          /\ IF found = <<>>
               THEN \* [...][0] raises IndexError
                    Finish(w, HTTP_500_INTERNAL_SERVER_ERROR, <<>>) /\ UNCHANGED loc
               ELSE /\ Goto(w, "uvr_cache")
                    /\ loc' = [loc EXCEPT ![w].uvr = found[1],
                                          ![w].operators = snapshot]
  /\ UNCHANGED << ops_side, log_side, env, uvrs, req, started >>

\* uvrs[uvr['message_id']] = uvr
CachePut_KeepFirst(cache, uvr) ==
  IF uvr.message_id \in DOMAIN cache THEN cache ELSE DictPut(cache, uvr.message_id, uvr)

CachePut(cache, uvr) == DictPut(cache, uvr.message_id, uvr)

\* uvrs[uvr['message_id']] = uvr; operators = [... 'ALL']
UvrCache(w) ==
  /\ pc[w] = "uvr_cache"
  /\ uvrs' = CachePut(uvrs, loc[w].uvr)
  /\ loc' = [loc EXCEPT ![w].operators = AnnounceToAll(@), ![w].idx = 1]
  /\ Goto(w, "uvr_notify")
  /\ UNCHANGED << ops_side, log_side, env, grid_uvrs, req, calls, started >>

\* One iteration of  for op in operators,  or the return after the loop.
UvrNotify(w) ==
  /\ pc[w] = "uvr_notify"
  /\ IF loc[w].idx > Len(loc[w].operators)
       THEN /\ Finish(w, HTTP_200_OK,
                      << [uvr |-> loc[w].uvr, notifications |-> loc[w].notifications] >>)
            /\ UNCHANGED << loc, calls >>
       ELSE LET op == loc[w].operators[loc[w].idx] IN
            IF SkipsNotify(op, loc[w].uvr.message_id)
              THEN /\ loc' = [loc EXCEPT ![w].idx = @ + 1]
                   /\ Goto(w, "uvr_notify")
                   /\ UNCHANGED calls
              ELSE \E result \in PeerOutcomes :
                     /\ Called(w, [fn |-> "notify", ok |-> result.kind = "response",
                                   code |-> result.code, uss |-> op.uss])
                     /\ IF result.kind = "timeout"
                          THEN \* requests.exceptions.Timeout is not caught
                               /\ Finish(w, HTTP_500_INTERNAL_SERVER_ERROR, <<>>)
                               /\ UNCHANGED loc
                          ELSE /\ loc' = [loc EXCEPT
                                    ![w].notifications = DictPut(@, op.uss, result.code),
                                    ![w].idx = @ + 1]
                               /\ Goto(w, "uvr_notify")
  /\ UNCHANGED << ops_side, log_side, env, uvrs, grid_uvrs, req, started >>

\* ------------------------------------ DELETE /client/uvr/<message_id>
\* _validate_control(); if message_id in uvrs
UvrDeleteStart(w) ==
  \E message_id \in MsgIds, body \in DeleteBodies, auth \in ControlHeaders :
    /\ Receive(w, Request("client_uvr", "DELETE", message_id, auth, body))
    /\ IF ValidateControl(auth) # 0
         THEN Finish(w, ValidateControl(auth), <<>>)
         ELSE IF message_id \in DOMAIN uvrs
                THEN Goto(w, "uvr_del_read")
                ELSE Goto(w, "uvr_lookup")
    /\ UNCHANGED << ops_side, log_side, env, uvrs, grid_uvrs, loc, calls >>

\* the argument uvrs[message_id] of grid_client.remove_uvr
UvrDeleteRead(w) ==
  /\ pc[w] = "uvr_del_read"
  /\ IF req[w].id \in DOMAIN uvrs
       THEN /\ loc' = [loc EXCEPT ![w].uvr = uvrs[req[w].id]]
            /\ Goto(w, "uvr_remove_cached")
       ELSE \* KeyError is not caught
            /\ Finish(w, HTTP_500_INTERNAL_SERVER_ERROR, <<>>)
            /\ UNCHANGED loc
  /\ UNCHANGED << ops_side, log_side, env, uvrs, grid_uvrs, req, calls, started >>

\* grid_client.remove_uvr(uvr): the grid refuses, or withdraws the UVR.
GridRemoveUvr(w, after) ==
  \/ \E e \in GridErrors :
       /\ Called(w, [fn |-> "remove_uvr", ok |-> FALSE, code |-> e, uvr |-> loc[w].uvr])
       /\ Finish(w, UvrRemoveError(e), <<>>)
       /\ UNCHANGED grid_uvrs
  \/ /\ Called(w, [fn |-> "remove_uvr", ok |-> TRUE, code |-> HTTP_200_OK,
                   uvr |-> loc[w].uvr])
     /\ grid_uvrs' = DictDel(grid_uvrs, loc[w].uvr.message_id)
     /\ after

\* grid_client.remove_uvr(uvrs[message_id]) of the cached branch
UvrRemoveCached(w) ==
  /\ pc[w] = "uvr_remove_cached"
  /\ GridRemoveUvr(w, Goto(w, "uvr_del_cache"))
  /\ UNCHANGED << ops_side, log_side, env, uvrs, req, loc, started >>

\* del uvrs[message_id]
UvrDeleteCache(w) ==
  /\ pc[w] = "uvr_del_cache"
  /\ IF req[w].id \in DOMAIN uvrs
       THEN /\ uvrs' = DictDel(uvrs, req[w].id)
            /\ Finish(w, HTTP_204_NO_CONTENT, <<>>)
       ELSE \* KeyError is not caught
            /\ Finish(w, HTTP_500_INTERNAL_SERVER_ERROR, <<>>)
            /\ UNCHANGED uvrs
  /\ UNCHANGED << ops_side, log_side, env, grid_uvrs, req, loc, calls, started >>

\* The branch for a UVR that is not cached: the area query and the filter.
UvrLookup(w) ==
  /\ pc[w] = "uvr_lookup"
  /\ LET area == AreaOf(req[w].body[1].geography) IN
     \/ \E e \in GridErrors :
          \* requests.HTTPError from get_operators_by_area is not caught
          /\ Called(w, [fn |-> "get_operators_by_area", ok |-> FALSE, code |-> e,
                        area |-> area, uvrs |-> <<>>])
          /\ Finish(w, HTTP_500_INTERNAL_SERVER_ERROR, <<>>)
          /\ UNCHANGED loc
     \/ LET returned == GridUvrsByArea(grid_uvrs, area)
            grid_match == WithMessageId(returned, req[w].id)
        IN /\ Called(w, [fn |-> "get_operators_by_area", ok |-> TRUE, code |-> HTTP_200_OK,
                         area |-> area, uvrs |-> returned])
           /\ IF grid_match # <<>>
                THEN /\ loc' = [loc EXCEPT ![w].uvr = grid_match[1]]
                     /\ Goto(w, "uvr_remove_uncached")
                ELSE /\ Finish(w, HTTP_404_NOT_FOUND, <<>>)
                     /\ UNCHANGED loc
  /\ UNCHANGED << ops_side, log_side, env, uvrs, grid_uvrs, req, started >>

\* grid_client.remove_uvr(uvr) of the uncached branch
UvrRemoveUncached(w) ==
  /\ pc[w] = "uvr_remove_uncached"
  /\ GridRemoveUvr(w, Finish(w, HTTP_204_NO_CONTENT, <<>>))
  /\ UNCHANGED << ops_side, log_side, env, uvrs, req, loc, started >>

\* ------------------------------------- /client/operation/<gufi>
\* operations[operation['gufi']] = operation
OperationsPut_KeepFirst(ops, operation) ==
  IF operation.gufi \in DOMAIN ops THEN ops ELSE DictPut(ops, operation.gufi, operation)

OperationsPut(ops, operation) == DictPut(ops, operation.gufi, operation)

\* operations.values()
OperationValues(ops, new_gufi) == {ops[g] : g \in DOMAIN ops}

\* flask.abort(e.response.status_code, msg) in _update_operations
UpdateOperationsAbort_Fixed500(e) == HTTP_500_INTERNAL_SERVER_ERROR

UpdateOperationsAbort(e) == e

\* GET: if gufi in operations: return flask.jsonify(operations[gufi])
OperationGet(w) ==
  \E gufi \in Gufis, auth \in ControlHeaders :
    /\ Receive(w, Request("client_operation", "GET", gufi, auth, [none |-> TRUE]))
    /\ IF gufi \in DOMAIN operations
         THEN Finish(w, HTTP_200_OK, <<operations[gufi]>>)
         ELSE Finish(w, HTTP_404_NOT_FOUND, <<>>)
    /\ UNCHANGED << ops_side, log_side, env, uvrs, grid_uvrs, loc, calls >>

\* PUT: _validate_control(); operations[operation['gufi']] = operation
OperationPutStart(w) ==
  \E operation \in OperationBodies, auth \in ControlHeaders :
   \E gufi \in PutPaths(operation) :
    /\ Receive(w, Request("client_operation", "PUT", gufi, auth, operation))
    /\ IF ValidateControl(auth) # 0
         THEN /\ Finish(w, ValidateControl(auth), <<>>)
              /\ UNCHANGED << operations, op_history, loc >>
         ELSE /\ operations' = OperationsPut(operations, operation)
              /\ op_history' = Append(op_history, [kind |-> "put", gufi |-> operation.gufi,
                                                   operation |-> <<operation>>])
              /\ loc' = [loc EXCEPT ![w].written = operations', ![w].mutated = TRUE]
              /\ Goto(w, "op_snapshot")
    /\ UNCHANGED << always_listen, grid_operator_entry, log_side, env, uvrs, grid_uvrs, calls >>

\* DELETE: _validate_control(); if gufi in operations ... else 404
OperationDeleteStart(w) ==
  \E gufi \in Gufis, auth \in ControlHeaders :
    /\ Receive(w, Request("client_operation", "DELETE", gufi, auth, [none |-> TRUE]))
    /\ IF ValidateControl(auth) # 0
         THEN Finish(w, ValidateControl(auth), <<>>)
         ELSE IF gufi \in DOMAIN operations
                THEN Goto(w, "op_del")
                ELSE Finish(w, HTTP_404_NOT_FOUND, <<>>)
    /\ UNCHANGED << ops_side, log_side, env, uvrs, grid_uvrs, loc, calls >>

\* del operations[gufi]
OperationDelete(w) ==
  /\ pc[w] = "op_del"
  /\ IF req[w].id \in DOMAIN operations
       THEN /\ operations' = DictDel(operations, req[w].id)
            /\ op_history' = Append(op_history, [kind |-> "del", gufi |-> req[w].id,
                                                 operation |-> <<>>])
            /\ loc' = [loc EXCEPT ![w].written = operations', ![w].mutated = TRUE]
            /\ Goto(w, "op_snapshot")
       ELSE \* KeyError is not caught
            /\ Finish(w, HTTP_500_INTERNAL_SERVER_ERROR, <<>>)
            /\ UNCHANGED << operations, op_history, loc >>
  /\ UNCHANGED << always_listen, grid_operator_entry, log_side, env, uvrs, grid_uvrs,
                  req, calls, started >>

\* The gufi _update_operations is called with.
NewGufi(w) ==
  IF req[w].ep # "client_operation" THEN "None"
  ELSE IF req[w].method = "PUT" THEN req[w].body[1].gufi ELSE req[w].id

\* _update_operations: the argument operations.values() is evaluated
UpdateOperationsSnapshot(w) ==
  /\ pc[w] = "op_snapshot"
  /\ loc' = [loc EXCEPT ![w].op_values = OperationValues(operations, NewGufi(w))]
  /\ Goto(w, "op_upsert_operator")
  /\ UNCHANGED << ops_side, log_side, env, uvrs, grid_uvrs, req, calls, started >>

\* grid_client.upsert_operator(operations.values(), ...): the grid refuses,
\* or replaces this USS's Operator entry; then  for slippy_cell in always_listen
UpsertOperator(w) ==
  /\ pc[w] = "op_upsert_operator"
  /\ \/ \E e \in GridErrors :
          /\ Called(w, [fn |-> "upsert_operator", ok |-> FALSE, code |-> e,
                        operations |-> loc[w].op_values])
          /\ Finish(w, UpdateOperationsAbort(e), <<>>)
          /\ UNCHANGED << grid_operator_entry, loc >>
     \/ /\ Called(w, [fn |-> "upsert_operator", ok |-> TRUE, code |-> HTTP_200_OK,
                      operations |-> loc[w].op_values])
        /\ grid_operator_entry' = loc[w].op_values
        /\ loc' = [loc EXCEPT ![w].cells = always_listen, ![w].idx = 1]
        /\ Goto(w, "op_observers")
  /\ UNCHANGED << operations, always_listen, op_history, log_side, env, uvrs, grid_uvrs,
                  req, started >>

\* One iteration of  for slippy_cell in always_listen:  insert_observer,
\* or the handler's return after the loop.
InsertObserver(w) ==
  /\ pc[w] = "op_observers"
  /\ IF loc[w].idx > Len(loc[w].cells)
       THEN /\ IF req[w].ep = "client_operation" /\ req[w].method = "PUT"
                 THEN Finish(w, HTTP_200_OK, req[w].body)
                 ELSE Finish(w, HTTP_204_NO_CONTENT, <<>>)
            /\ UNCHANGED << loc, calls >>
       ELSE \/ \E e \in GridErrors :
                 /\ Called(w, [fn |-> "insert_observer", ok |-> FALSE, code |-> e,
                               cell |-> loc[w].cells[loc[w].idx]])
                 /\ Finish(w, UpdateOperationsAbort(e), <<>>)
                 /\ UNCHANGED loc
            \/ /\ Called(w, [fn |-> "insert_observer", ok |-> TRUE, code |-> HTTP_200_OK,
                             cell |-> loc[w].cells[loc[w].idx]])
               /\ loc' = [loc EXCEPT ![w].idx = @ + 1]
               /\ Goto(w, "op_observers")
  /\ UNCHANGED << ops_side, log_side, env, uvrs, grid_uvrs, req, started >>

\* ------------------------------------------- control and status endpoints
\* GET /status
StatusGet(w) ==
  \E auth \in ControlHeaders :
    /\ Receive(w, Request("status", "GET", <<>>, auth, [none |-> TRUE]))
    /\ Finish(w, HTTP_200_OK,
              << [status |-> "success", operations |-> DOMAIN operations,
                  uss_baseurl |-> uss_baseurl] >>)
    /\ UNCHANGED << ops_side, log_side, env, uvrs, grid_uvrs, loc, calls >>

\* GET /client/alwayslisten
AlwaysListenGet(w) ==
  \E auth \in ControlHeaders :
    /\ Receive(w, Request("alwayslisten", "GET", <<>>, auth, [none |-> TRUE]))
    /\ Finish(w, HTTP_200_OK, <<always_listen>>)
    /\ UNCHANGED << ops_side, log_side, env, uvrs, grid_uvrs, loc, calls >>

\* PUT /client/alwayslisten: _validate_control(); the validation of every
\* cell; always_listen = cells; then _update_operations()
AlwaysListenPut(w) ==
  \E cells \in CellLists, auth \in ControlHeaders :
    /\ Receive(w, Request("alwayslisten", "PUT", <<>>, auth, cells))
    /\ IF ValidateControl(auth) # 0
         THEN Finish(w, ValidateControl(auth), <<>>) /\ UNCHANGED always_listen
         ELSE IF FirstInvalid(cells) # 0
                THEN Finish(w, HTTP_400_BAD_REQUEST, <<>>) /\ UNCHANGED always_listen
                ELSE always_listen' = cells /\ Goto(w, "op_snapshot")
    /\ UNCHANGED << operations, grid_operator_entry, op_history, log_side, env, uvrs,
                    grid_uvrs, loc, calls >>

\* DELETE /client/operator_entries: _validate_control(); cells = request.json
OperatorEntriesStart(w) ==
  \E cells \in CellLists, auth \in ControlHeaders :
    /\ Receive(w, Request("operator_entries", "DELETE", <<>>, auth, cells))
    /\ IF ValidateControl(auth) # 0
         THEN Finish(w, ValidateControl(auth), <<>>) /\ UNCHANGED loc
         ELSE /\ loc' = [loc EXCEPT ![w].cells = cells, ![w].idx = 1,
                                    ![w].result = EmptyDict]
              /\ Goto(w, "entries_loop")
    /\ UNCHANGED << ops_side, log_side, env, uvrs, grid_uvrs, calls >>

\* One iteration of  for slippy_cell in cells:  the cell is validated and
\* its operator entry removed; or the return after the loop.
OperatorEntriesLoop(w) ==
  /\ pc[w] = "entries_loop"
  /\ IF loc[w].idx > Len(loc[w].cells)
       THEN /\ Finish(w, HTTP_200_OK, <<loc[w].result>>)
            /\ UNCHANGED << loc, calls >>
       ELSE LET slippy_cell == loc[w].cells[loc[w].idx] IN
            IF ~ReMatchSlippy(slippy_cell)
              THEN /\ Finish(w, HTTP_400_BAD_REQUEST, <<>>)
                   /\ UNCHANGED << loc, calls >>
              ELSE \E code \in RemoveOperatorResponses :
                     /\ Called(w, [fn |-> "remove_operator_by_cell", ok |-> TRUE,
                                   code |-> code, cell |-> slippy_cell])
                     /\ loc' = [loc EXCEPT ![w].result = DictPut(@, slippy_cell, code),
                                           ![w].idx = @ + 1]
                     /\ Goto(w, "entries_loop")
  /\ UNCHANGED << ops_side, log_side, env, uvrs, grid_uvrs, req, started >>

\* GET /client/uvr/<message_id>
UvrGet(w) ==
  \E message_id \in MsgIds, auth \in ControlHeaders :
    /\ Receive(w, Request("client_uvr", "GET", message_id, auth, [none |-> TRUE]))
    /\ IF message_id \in DOMAIN uvrs
         THEN Finish(w, HTTP_200_OK, <<uvrs[message_id]>>)
         ELSE Finish(w, HTTP_404_NOT_FOUND, <<>>)
    /\ UNCHANGED << ops_side, log_side, env, uvrs, grid_uvrs, loc, calls >>

\* ------------------------------------------ USS endpoints (peer PUTs)
\* The PUT endpoints that log their request body, each with the source it
\* logs under and the JSON field its action is read from (<<>> for none).
NotifyEndpoints ==
  { [source |-> "uvrs", action_field |-> <<>>],
    [source |-> "utm_messages", action_field |-> <<"message_type">>],
    [source |-> "uss", action_field |-> <<>>],
    [source |-> "negotiations", action_field |-> <<>>],
    [source |-> "positions", action_field |-> <<>>],
    [source |-> "operations", action_field |-> <<"state">>],
    [source |-> "enhanced_operations", action_field |-> <<>>] }

\* The identifiers in the paths of those requests: the keys of the log.
LogKeys == {"k1", "k2"}

\* JSON bodies of the peer PUTs; a field is <<>> when the body lacks it.
FullBody == [uss_name |-> <<"uss1">>, message_type |-> <<"INFO">>, state |-> <<"ACTIVATED">>]

BareBody == [uss_name |-> <<>>, message_type |-> <<>>, state |-> <<>>]

\* The bodies sent to each endpoint.
NotifyBodies(endpoint) ==
  CASE endpoint.source = "utm_messages" -> {FullBody, BareBody}
    [] endpoint.source \in {"uvrs", "uss", "operations"} -> {FullBody}
    [] OTHER -> {BareBody}

\* The scopes a token may grant.
Scopes == {"s1", "s2"}

\* What jwt.decode(token, public_key, algorithms='RS256') finds a token to be.
TokenKinds == {"expired", "malformed", "wrong_key", "valid"}

\* A request without a token.
NoToken == [header |-> "none", kind |-> "none", scope |-> {}]

\* The access tokens a request may carry, with the header that carries them
\* and, for a token that decodes, the scopes of its claims.
Tokens ==
  {NoToken} \cup [header : {"Authorization", "access_token"}, kind : TokenKinds,
                  scope : SUBSET Scopes]

\* The tokens the peer notifications carry.
PeerTokens ==
  {NoToken} \cup {t \in Tokens : /\ t.header = "Authorization" /\ t.scope = {"s1"}
                                 /\ t.kind # "wrong_key"}

\* The values of the argument allowed_scopes: <<>> is None.
AllowedScopes == {<<>>} \cup {<<allowed>> : allowed \in SUBSET Scopes}

\* _validate_access_token(allowed_scopes): the status it aborts with, 0 when
\* the token passes.  jwt.InvalidSignatureError is a jwt.DecodeError.
ValidateAccessToken_NoScopeCheck(token, allowed_scopes) ==
  CASE token.header = "none" -> HTTP_401_UNAUTHORIZED
    [] token.kind = "expired" -> HTTP_401_UNAUTHORIZED
    [] token.kind \in {"malformed", "wrong_key"} -> HTTP_400_BAD_REQUEST
    [] OTHER -> 0

ValidateAccessToken_AcceptsExpired(token, allowed_scopes) ==
  CASE token.header = "none" -> HTTP_401_UNAUTHORIZED
    [] token.kind \in {"malformed", "wrong_key"} -> HTTP_400_BAD_REQUEST
    [] OTHER -> 0

ValidateAccessToken(token, allowed_scopes) ==
  CASE token.header = "none" -> HTTP_401_UNAUTHORIZED
    [] token.kind = "expired" -> HTTP_401_UNAUTHORIZED
    [] token.kind \in {"malformed", "wrong_key"} -> HTTP_400_BAD_REQUEST
    [] allowed_scopes # <<>> /\ token.scope \cap allowed_scopes[1] = {} ->
         HTTP_403_FORBIDDEN
    [] OTHER -> 0

\* d.get(field, '???')
GetOr(field, default) == IF field = <<>> THEN default ELSE field[1]

\* The entry _log_request_body builds for request number n: the request's
\* number stands for the time it is received at and for its body.
LogEntry(endpoint, body, n) ==
  [received |-> n,
   source |-> endpoint.source,
   content |-> n,
   uss |-> GetOr(body.uss_name, "???"),
   action |-> IF endpoint.action_field = <<>> THEN <<>>
              ELSE IF endpoint.action_field[1] = "message_type"
                     THEN <<GetOr(body.message_type, "???")>>
                     ELSE <<GetOr(body.state, "???")>>]

\* with notification_lock:  blocks until no thread holds the lock
LockAvailable_Always(lock) == TRUE

LockAvailable(lock) == lock = 0

\* _validate_access_token(); the entry of _log_request_body
PeerNotify(w, endpoints, tokens) ==
  \E endpoint \in endpoints, key \in LogKeys, token \in tokens :
   \E body \in NotifyBodies(endpoint) :
    /\ Receive(w, Request(endpoint.source, "PUT", key, <<token>>, body))
    /\ IF ValidateAccessToken(token, <<>>) # 0
         THEN Finish(w, ValidateAccessToken(token, <<>>), <<>>) /\ UNCHANGED loc
         ELSE /\ loc' = [loc EXCEPT ![w].entry = LogEntry(endpoint, body, w)]
              /\ Goto(w, "log_acquire")
    /\ UNCHANGED << ops_side, log_side, env, uvrs, grid_uvrs, calls >>

PeerNotifyStart(w) == PeerNotify(w, NotifyEndpoints, PeerTokens)

\* A call of _validate_access_token(allowed_scopes) on a request: the status
\* it aborts with is the response, 0 when it returns.
AccessTokenCheck(w) ==
  \E token \in Tokens, allowed_scopes \in AllowedScopes :
    /\ Receive(w, Request("validate_access_token", "GET", <<>>, <<token>>, allowed_scopes))
    /\ Finish(w, ValidateAccessToken(token, allowed_scopes), <<>>)
    /\ UNCHANGED << ops_side, log_side, env, uvrs, grid_uvrs, loc, calls >>

\* with notification_lock:
LogAcquire(w) ==
  /\ pc[w] = "log_acquire"
  /\ LockAvailable(notification_lock)
  /\ notification_lock' = w
  /\ Goto(w, "log_get")
  /\ UNCHANGED << ops_side, notification_logs, log_states, env, uvrs, grid_uvrs, req, loc,
                  calls, started >>

\* history = notification_logs.get(key, [])
LogGet(w) ==
  /\ pc[w] = "log_get"
  /\ loc' = [loc EXCEPT ![w].history =
               IF req[w].id \in DOMAIN notification_logs
                 THEN notification_logs[req[w].id] ELSE <<>>]
  /\ Goto(w, "log_append")
  /\ UNCHANGED << ops_side, log_side, env, uvrs, grid_uvrs, req, calls, started >>

\* history.append(entry)
HistoryAppend_Prepend(history, entry) == <<entry>> \o history

HistoryAppend(history, entry) == Append(history, entry)

\* history.append(entry); notification_logs[key] = history
LogAppend(w) ==
  /\ pc[w] = "log_append"
  /\ notification_logs' =
       DictPut(notification_logs, req[w].id, HistoryAppend(loc[w].history, loc[w].entry))
  /\ log_states' = log_states \cup {notification_logs'}
  /\ Goto(w, "log_release")
  /\ UNCHANGED << ops_side, notification_lock, env, uvrs, grid_uvrs, req, loc, calls, started >>

\* the end of the with block; return '', 204
LogRelease(w) ==
  /\ pc[w] = "log_release"
  /\ notification_lock' = 0
  /\ Finish(w, HTTP_204_NO_CONTENT, <<>>)
  /\ UNCHANGED << ops_side, notification_logs, log_states, env, uvrs, grid_uvrs, req, loc,
                  calls, started >>

\* ------------------------------------------- /notifications (control)
\* The letters of the query arguments that have an upper case.
LowerChar(c) == CASE c = "T" -> "t" [] c = "Y" -> "y" [] OTHER -> c

Lower(str) == [i \in 1..Len(str) |-> LowerChar(str[i])]

\* _string_to_bool(s)
StringToBool(str) ==
  Lower(str) \in { <<"t", "r", "u", "e">>, <<"t">>, <<"y">>, <<"1">>, <<"y", "e", "s">> }

\* flask.request.args.get(name, default): <<>> is an absent argument.
ArgOr(arg, default) == IF arg = <<>> THEN default ELSE arg[1]

\* The query arguments of GET /notifications.
FetchArgs ==
  { [details |-> <<>>, uss |-> <<>>, exclude_content |-> <<>>],
    [details |-> << <<"n", "o">> >>, uss |-> <<"uss1">>, exclude_content |-> <<>>],
    [details |-> << <<"t", "r", "u", "e">> >>, uss |-> <<>>, exclude_content |-> <<>>],
    [details |-> << <<"T">> >>, uss |-> <<"uss1">>, exclude_content |-> <<>>],
    [details |-> << <<"1">> >>, uss |-> <<>>, exclude_content |-> << <<"Y", "e", "s">> >>],
    [details |-> << <<"y">> >>, uss |-> <<"uss1">>, exclude_content |-> << <<"t">> >>] }

NoArgs == [details |-> <<>>, uss |-> <<>>, exclude_content |-> <<>>]

\* logs = {key: [e for e in msgs if e['uss'] == uss_filter] ...}
FilterByUss(logs, uss_filter) ==
  LET from(e) == e.uss = uss_filter
  IN [key \in DOMAIN logs |-> SelectSeq(logs[key], from)]

\* {k: v for k, v in value.items() if k != 'content'}
WithoutContent(e) == [k \in (DOMAIN e) \ {"content"} |-> e[k]]

\* logs = {key: [{...} for value in values] for key, values in logs.items()}
ExcludeContent(logs) ==
  [key \in DOMAIN logs |-> [i \in 1..Len(logs[key]) |-> WithoutContent(logs[key][i])]]

\* The detailed view of GET /notifications.
DetailedView(logs, args) ==
  LET filtered == IF args.uss # <<>> THEN FilterByUss(logs, args.uss[1]) ELSE logs
  IN IF StringToBool(ArgOr(args.exclude_content, <<"f", "a", "l", "s", "e">>))
       THEN ExcludeContent(filtered) ELSE filtered

\* [e['source'] + ' ' + e['received'] for e in value]
CompactLines(value) == [i \in 1..Len(value) |-> <<value[i].source, value[i].received>>]

\* n = len(notification_logs)
ClearCount_AfterClear(logs) == 0

ClearCount(logs) == Cardinality(DOMAIN logs)

\* GET /notifications/<notification_key>: _validate_control()
NotificationsGetStart(w, headers) ==
  \E key \in LogKeys, auth \in headers :
    /\ Receive(w, Request("notifications_key", "GET", key, auth, NoArgs))
    /\ IF ValidateControl(auth) # 0
         THEN Finish(w, ValidateControl(auth), <<>>)
         ELSE Goto(w, "fetch_acquire")
    /\ UNCHANGED << ops_side, log_side, env, uvrs, grid_uvrs, loc, calls >>

\* with notification_lock:
NotificationsGetAcquire(w) ==
  /\ pc[w] = "fetch_acquire"
  /\ LockAvailable(notification_lock)
  /\ notification_lock' = w
  /\ Goto(w, "fetch_read")
  /\ UNCHANGED << ops_side, notification_logs, log_states, env, uvrs, grid_uvrs, req, loc,
                  calls, started >>

\* if notification_key in notification_logs: return jsonify(...) else 404
NotificationsGetRead(w) ==
  /\ pc[w] = "fetch_read"
  /\ IF req[w].id \in DOMAIN notification_logs
       THEN Finish(w, HTTP_200_OK, <<notification_logs[req[w].id]>>)
       ELSE Finish(w, HTTP_404_NOT_FOUND, <<>>)
  /\ notification_lock' = 0
  /\ UNCHANGED << ops_side, notification_logs, log_states, env, uvrs, grid_uvrs, req, loc,
                  calls, started >>

\* /notifications: _validate_control(), then the branch on method and details
NotificationsStart(w, headers) ==
  \E method \in {"GET", "DELETE"}, auth \in headers :
   \E args \in IF method = "GET" THEN FetchArgs ELSE {NoArgs} :
    /\ Receive(w, Request("notifications", method, <<>>, auth, args))
    /\ IF ValidateControl(auth) # 0
         THEN Finish(w, ValidateControl(auth), <<>>)
         ELSE IF method = "DELETE"
                THEN Goto(w, "clear_acquire")
                ELSE IF StringToBool(ArgOr(args.details, <<"f", "a", "l", "s", "e">>))
                       THEN Goto(w, "detailed_acquire")
                       ELSE Goto(w, "compact_items")
    /\ UNCHANGED << ops_side, log_side, env, uvrs, grid_uvrs, loc, calls >>

\* detailed view: with notification_lock:
DetailedAcquire(w) ==
  /\ pc[w] = "detailed_acquire"
  /\ LockAvailable(notification_lock)
  /\ notification_lock' = w
  /\ Goto(w, "detailed_read")
  /\ UNCHANGED << ops_side, notification_logs, log_states, env, uvrs, grid_uvrs, req, loc,
                  calls, started >>

\* detailed view: the filters and  return flask.jsonify(logs)
DetailedRead(w) ==
  /\ pc[w] = "detailed_read"
  /\ Finish(w, HTTP_200_OK, <<DetailedView(notification_logs, req[w].body[1])>>)
  /\ notification_lock' = 0
  /\ UNCHANGED << ops_side, notification_logs, log_states, env, uvrs, grid_uvrs, req, loc,
                  calls, started >>

\* compact view: notification_logs.items() lists the keys with their lists;
\* the lists are the ones record appends to.
CompactItems(w) ==
  /\ pc[w] = "compact_items"
  /\ loc' = [loc EXCEPT ![w].items = notification_logs, ![w].detached = FALSE,
                        ![w].pending = DOMAIN notification_logs,
                        ![w].result = EmptyDict]
  /\ Goto(w, "compact_iter")
  /\ UNCHANGED << ops_side, log_side, env, uvrs, grid_uvrs, req, calls, started >>

\* compact view: the entries of one key are listed, or the view is returned.
\* A list that clear() has taken out of the log keeps its entries.
CompactIter(w) ==
  /\ pc[w] = "compact_iter"
  /\ IF loc[w].pending = {}
       THEN /\ Finish(w, HTTP_200_OK, <<loc[w].result>>)
            /\ UNCHANGED loc
       ELSE \E key \in loc[w].pending :
              LET value == IF loc[w].detached THEN loc[w].items[key]
                           ELSE notification_logs[key]
              IN /\ loc' = [loc EXCEPT ![w].result = DictPut(@, key, CompactLines(value)),
                                       ![w].pending = @ \ {key}]
                 /\ Goto(w, "compact_iter")
  /\ UNCHANGED << ops_side, log_side, env, uvrs, grid_uvrs, req, calls, started >>

\* DELETE: with notification_lock:
ClearAcquire(w) ==
  /\ pc[w] = "clear_acquire"
  /\ LockAvailable(notification_lock)
  /\ notification_lock' = w
  /\ Goto(w, "clear_run")
  /\ UNCHANGED << ops_side, notification_logs, log_states, env, uvrs, grid_uvrs, req, loc,
                  calls, started >>

\* DELETE: n = len(notification_logs); notification_logs.clear(); return n.
\* A compact view that is listing the log keeps the lists it obtained.
ClearRun(w) ==
  /\ pc[w] = "clear_run"
  /\ notification_logs' = EmptyDict
  /\ log_states' = log_states \cup {notification_logs'}
  /\ Finish(w, HTTP_200_OK, <<ClearCount(notification_logs)>>)
  /\ notification_lock' = 0
  /\ loc' = [r \in DOMAIN loc |->
               IF pc[r] = "compact_iter" /\ ~loc[r].detached
                 THEN [loc[r] EXCEPT
                         !.items = [key \in DOMAIN loc[r].items |-> notification_logs[key]],
                         !.detached = TRUE]
                 ELSE loc[r]]
  /\ UNCHANGED << ops_side, env, uvrs, grid_uvrs, req, calls, started >>

\* ---------------------------------------------------------- specification
\* The module-level globals other than the log and the caches.
InitGlobals ==
  /\ operations = EmptyDict
  /\ notification_lock = 0
  /\ always_listen = AlwaysListenConfigured
  /\ grid_operator_entry = {}
  /\ op_history = <<>>

InitLog(logs) ==
  /\ notification_logs = logs
  /\ log_states = {logs}

\* No thread in workers has received a request.
InitHandlers(workers) ==
  /\ pc = [w \in workers |-> "idle"]
  /\ req = [w \in workers |-> NoReq]
  /\ loc = [w \in workers |-> NoLoc]
  /\ resp = [w \in workers |-> NoResp]
  /\ calls = [w \in workers |-> <<>>]

InitProgram ==
  /\ InitGlobals
  /\ InitLog(EmptyDict)
  /\ InitHandlers(Workers)

\* UVR handlers running concurrently.
UvrInit ==
  /\ InitProgram
  /\ \E i \in InitialUvrs : uvrs = i.cache /\ grid_uvrs = i.grid
  /\ grid_operators \in ConcurrentSnapshots
  /\ started = 0
  /\ limit = NumWorkers

UvrNext ==
  \E w \in Workers :
    \/ UvrPutStart(w)
    \/ UvrUpsertGrid(w)
    \/ UvrCache(w)
    \/ UvrNotify(w)
    \/ UvrDeleteStart(w)
    \/ UvrDeleteRead(w)
    \/ UvrRemoveCached(w)
    \/ UvrDeleteCache(w)
    \/ UvrLookup(w)
    \/ UvrRemoveUncached(w)

UvrSpec == UvrInit /\ [][UvrNext]_vars

\* UVR handlers against a grid that lists several operators.
NotifyInit ==
  /\ InitProgram
  /\ \E i \in InitialUvrs : uvrs = i.cache /\ grid_uvrs = i.grid
  /\ grid_operators \in OperatorSnapshots
  /\ started = 0
  /\ limit = NotifyRequests

NotifySpec == NotifyInit /\ [][UvrNext]_vars

\* Operation handlers running concurrently.
OperationsInit ==
  /\ InitProgram
  /\ uvrs = EmptyDict /\ grid_uvrs = EmptyDict
  /\ grid_operators = <<>>
  /\ started = 0
  /\ limit = NumWorkers

OperationsNext ==
  \E w \in Workers :
    \/ OperationGet(w)
    \/ OperationPutStart(w)
    \/ OperationDeleteStart(w)
    \/ OperationDelete(w)
    \/ UpdateOperationsSnapshot(w)
    \/ UpsertOperator(w)
    \/ InsertObserver(w)

OperationsSpec == OperationsInit /\ [][OperationsNext]_vars

\* Peer notifications handled concurrently.
LogInit ==
  /\ InitProgram
  /\ uvrs = EmptyDict /\ grid_uvrs = EmptyDict
  /\ grid_operators = <<>>
  /\ started = 0
  /\ limit = NumWorkers

LogNext ==
  \E w \in Workers :
    \/ PeerNotifyStart(w)
    \/ LogAcquire(w)
    \/ LogGet(w)
    \/ LogAppend(w)
    \/ LogRelease(w)

LogSpec == LogInit /\ [][LogNext]_vars

\* A log left by earlier peer notifications.
EarlierEntry(source, uss) ==
  [received |-> 0, source |-> source, content |-> 0, uss |-> uss, action |-> <<>>]

InitialLogs ==
  { EmptyDict,
    DictPut(EmptyDict, "k1", << EarlierEntry("uvrs", "uss1"), EarlierEntry("uss", "???") >>),
    DictPut(DictPut(EmptyDict, "k1", << EarlierEntry("uvrs", "uss1") >>),
            "k2", << EarlierEntry("positions", "???") >>) }

\* The peer notifications sent while the log is read and cleared.
AdminEndpoints == {e \in NotifyEndpoints : e.source = "utm_messages"}

AdminTokens == {t \in PeerTokens : t.header = "Authorization" /\ t.kind = "valid"}

\* The log is written, read and cleared concurrently.
AdminInit ==
  /\ InitGlobals
  /\ \E logs \in InitialLogs : InitLog(logs)
  /\ InitHandlers(Workers)
  /\ uvrs = EmptyDict /\ grid_uvrs = EmptyDict
  /\ grid_operators = <<>>
  /\ started = 0
  /\ limit = NumWorkers

AdminStep(w) ==
  \/ PeerNotify(w, AdminEndpoints, AdminTokens)
  \/ LogAcquire(w)
  \/ LogGet(w)
  \/ LogAppend(w)
  \/ LogRelease(w)
  \/ NotificationsGetStart(w, {<<control_authorization>>})
  \/ NotificationsGetAcquire(w)
  \/ NotificationsGetRead(w)
  \/ NotificationsStart(w, {<<control_authorization>>})
  \/ DetailedAcquire(w)
  \/ DetailedRead(w)
  \/ CompactItems(w)
  \/ CompactIter(w)
  \/ ClearAcquire(w)
  \/ ClearRun(w)

AdminNext == \E w \in Workers : AdminStep(w)

AdminSpec == AdminInit /\ [][AdminNext]_vars

\* An operation this USS announced earlier.
EarlierOperation == [gufi |-> "g1", state |-> "ACCEPTED"]

\* The control and status endpoints, on a USS that earlier requests left
\* with an operation, possibly a UVR, and possibly a log.
ControlInit ==
  /\ operations = DictPut(EmptyDict, "g1", EarlierOperation)
  /\ op_history = << [kind |-> "put", gufi |-> "g1", operation |-> <<EarlierOperation>>] >>
  /\ grid_operator_entry = {EarlierOperation}
  /\ notification_lock = 0
  /\ always_listen = AlwaysListenConfigured
  /\ \E logs \in InitialLogs : InitLog(logs)
  /\ \E i \in InitialUvrs : uvrs = i.cache /\ grid_uvrs = i.grid
  /\ InitHandlers(Workers)
  /\ grid_operators \in ConcurrentSnapshots
  /\ started = 0
  /\ limit = ControlRequests

ControlNext ==
  \E w \in Workers :
    \/ StatusGet(w)
    \/ AlwaysListenGet(w)
    \/ AlwaysListenPut(w)
    \/ OperatorEntriesStart(w)
    \/ OperatorEntriesLoop(w)
    \/ OperationGet(w)
    \/ OperationPutStart(w)
    \/ OperationDeleteStart(w)
    \/ OperationDelete(w)
    \/ UpdateOperationsSnapshot(w)
    \/ UpsertOperator(w)
    \/ InsertObserver(w)
    \/ UvrGet(w)
    \/ UvrPutStart(w)
    \/ UvrUpsertGrid(w)
    \/ UvrCache(w)
    \/ UvrNotify(w)
    \/ UvrDeleteStart(w)
    \/ UvrDeleteRead(w)
    \/ UvrRemoveCached(w)
    \/ UvrDeleteCache(w)
    \/ UvrLookup(w)
    \/ UvrRemoveUncached(w)
    \/ NotificationsGetStart(w, ControlHeaders)
    \/ NotificationsGetAcquire(w)
    \/ NotificationsGetRead(w)
    \/ NotificationsStart(w, ControlHeaders)
    \/ DetailedAcquire(w)
    \/ DetailedRead(w)
    \/ CompactItems(w)
    \/ CompactIter(w)
    \/ ClearAcquire(w)
    \/ ClearRun(w)

ControlSpec == ControlInit /\ [][ControlNext]_vars

\* The token check applied to every token and every set of allowed scopes.
TokenInit ==
  /\ InitProgram
  /\ uvrs = EmptyDict /\ grid_uvrs = EmptyDict
  /\ grid_operators = <<>>
  /\ started = 0
  /\ limit = ControlRequests

TokenNext == \E w \in Workers : AccessTokenCheck(w)

TokenSpec == TokenInit /\ [][TokenNext]_vars

\* One more thread than in AdminSpec: a read of the log runs while the other
\* threads record.
ReadWorkers == 1..(NumWorkers + 1)

ReadInit ==
  /\ InitGlobals
  /\ \E logs \in InitialLogs : InitLog(logs)
  /\ InitHandlers(ReadWorkers)
  /\ uvrs = EmptyDict /\ grid_uvrs = EmptyDict
  /\ grid_operators = <<>>
  /\ started = 0
  /\ limit = NumWorkers + 1

ReadNext == \E w \in ReadWorkers : AdminStep(w)

ReadSpec == ReadInit /\ [][ReadNext]_vars

\* ------------------------------------------------------ UVR properties
IsUvrPut(w) == req[w].ep = "client_uvr" /\ req[w].method = "PUT"

IsUvrDelete(w) == req[w].ep = "client_uvr" /\ req[w].method = "DELETE"

\* The calls of worker w to fn, in the order they were made.
CallsTo(w, fn) == LET is(c) == c.fn = fn IN SelectSeq(calls[w], is)

\* How many times worker w attempted to notify the USS named uss.
Attempts(w, uss) ==
  Cardinality({i \in 1..Len(calls[w]) : calls[w][i].fn = "notify" /\ calls[w][i].uss = uss})

\* The peers the publish must notify: announcement level ALL and not this USS.
MustNotify(op) == op.announcement_level = "ALL" /\ op.uss_baseurl # uss_baseurl

\* C1: a publish that the grid accepted and that returned its result has
\* attempted each ALL-level participant other than this USS exactly once, and
\* no other participant.
C1_NotifiesExactlyAllLevelPeers ==
  \A w \in Workers :
    (pc[w] = "done" /\ IsUvrPut(w) /\ resp[w].code = HTTP_200_OK) =>
      \A i \in 1..Len(grid_operators) :
        Attempts(w, grid_operators[i].uss) =
          IF MustNotify(grid_operators[i]) THEN 1 ELSE 0

\* The peers the loop of the handler does not skip.
InNotificationSet(w, op) ==
  op.announcement_level = "ALL" /\ ~SkipsNotify(op, loc[w].uvr.message_id)

NotificationFailed(c) == c.fn = "notify" /\ (~c.ok \/ c.code >= 400)

\* C2: a publish in which a notification failed (a status of 400 or more, or
\* no response in time) still attempts every peer of the notification set,
\* returns success and reports one outcome per attempted peer.
C2_FailedNotificationDoesNotAbort ==
  \A w \in Workers :
    ( /\ pc[w] = "done" /\ IsUvrPut(w)
      /\ \E i \in 1..Len(calls[w]) : NotificationFailed(calls[w][i]) ) =>
      /\ resp[w].code = HTTP_200_OK
      /\ \A i \in 1..Len(grid_operators) :
           InNotificationSet(w, grid_operators[i]) => Attempts(w, grid_operators[i].uss) = 1
      /\ DOMAIN loc[w].notifications =
           {calls[w][i].uss : i \in {j \in 1..Len(calls[w]) : calls[w][j].fn = "notify"}}

\* Worker w returns a successful response in this step.
Completes(w) ==
  /\ pc[w] # "done" /\ pc'[w] = "done"
  /\ resp'[w].code \in {HTTP_200_OK, HTTP_204_NO_CONTENT}

\* C3: in the state a successful publish or delete of message_id returns in,
\* the cached UVR of message_id, if any, is the grid's UVR of message_id.
C3_CacheEqualsGridOnCompletion ==
  [][\A w \in Workers :
       (Completes(w) /\ req'[w].ep = "client_uvr" /\ req'[w].id \in DOMAIN uvrs') =>
         /\ req'[w].id \in DOMAIN grid_uvrs'
         /\ uvrs'[req'[w].id] = grid_uvrs'[req'[w].id]]_vars

\* C7: the step in which the grid rejects the upsert of a publish ends the
\* request with the grid's status and leaves the cache as it is; the request
\* has not written the cache before and it has notified no peer.
C7_RejectedPublishChangesNothing ==
  [][\A w \in Workers :
       /\ (pc[w] = "idle" /\ pc'[w] = "uvr_upsert") => uvrs' = uvrs /\ calls'[w] = <<>>
       /\ (pc[w] = "uvr_upsert" /\ pc'[w] = "done" /\ ~calls'[w][1].ok) =>
            /\ resp'[w].code = calls'[w][1].code
            /\ uvrs' = uvrs
            /\ Len(calls'[w]) = 1]_vars

C7_Witness ==
  \E w \in Workers :
    /\ pc[w] = "done" /\ IsUvrPut(w)
    /\ Len(calls[w]) = 1 /\ calls[w][1].fn = "upsert_uvr" /\ ~calls[w][1].ok
    /\ resp[w].code \in GridErrors

\* The request of worker w found its message_id in the cache.
TookCachedBranch(w) ==
  /\ IsUvrDelete(w)
  /\ \/ pc[w] \in {"uvr_del_read", "uvr_remove_cached", "uvr_del_cache"}
     \/ pc[w] = "done" /\ resp[w].code # HTTP_401_UNAUTHORIZED
                       /\ resp[w].code # HTTP_403_FORBIDDEN
                       /\ CallsTo(w, "get_operators_by_area") = <<>>

\* C8: a delete that found its UVR in the cache asks the grid to withdraw the
\* cached UVR; when the grid accepts, the call succeeds and the entry is
\* gone; when the grid fails, the call fails with the grid's status.
C8_CachedDeleteFollowsGrid ==
  \A w \in Workers :
    (TookCachedBranch(w) /\ pc[w] = "done") =>
      /\ Len(calls[w]) = 1 /\ calls[w][1].fn = "remove_uvr"
      /\ calls[w][1].ok => resp[w].code = HTTP_204_NO_CONTENT
      /\ ~calls[w][1].ok => resp[w].code = calls[w][1].code

\* The UVRs with the request's message_id among those an area query returned.
Matching(w, query) ==
  {query.uvrs[i] : i \in {j \in 1..Len(query.uvrs) : query.uvrs[j].message_id = req[w].id}}

\* C9: a delete of a UVR that is not cached queries the grid by the request's
\* geography; if a returned UVR has the message_id, that UVR is the one whose
\* withdrawal is asked for, and an accepted withdrawal ends the call with
\* success; if none has, the call ends as not found with no withdrawal.
C9_UncachedDeleteUsesGridLookup ==
  \A w \in Workers :
    (IsUvrDelete(w) /\ calls[w] # <<>> /\ calls[w][1].fn = "get_operators_by_area") =>
      LET query == calls[w][1]
          geography == req[w].body[1].geography
      IN /\ query.area =
              [i \in 1..Len(geography) |-> [lat |-> geography[i][2], lng |-> geography[i][1]]]
         /\ query.ok =>
              IF Matching(w, query) = {}
                THEN /\ pc[w] = "done" /\ resp[w].code = HTTP_404_NOT_FOUND
                     /\ Len(calls[w]) = 1
                ELSE \/ /\ pc[w] = "uvr_remove_uncached" /\ Len(calls[w]) = 1
                        /\ loc[w].uvr \in Matching(w, query)
                     \/ /\ pc[w] = "done" /\ Len(calls[w]) = 2
                        /\ calls[w][2].fn = "remove_uvr"
                        /\ calls[w][2].uvr \in Matching(w, query)
                        /\ calls[w][2].ok => resp[w].code = HTTP_204_NO_CONTENT
                        /\ ~calls[w][2].ok => resp[w].code = calls[w][2].code

C9_Witness ==
  \E w \in Workers :
    /\ pc[w] = "done" /\ IsUvrDelete(w) /\ resp[w].code = HTTP_204_NO_CONTENT
    /\ Len(calls[w]) = 2 /\ calls[w][1].fn = "get_operators_by_area"
    /\ calls[w][2].fn = "remove_uvr" /\ calls[w][2].ok
    /\ calls[w][2].uvr.message_id = req[w].id

\* ------------------------------------------------ operation properties
\* The operation a lookup of gufi finds: <<operation>>, or <<>> for none.
Lookup(ops, gufi) == IF gufi \in DOMAIN ops THEN <<ops[gufi]>> ELSE <<>>

\* What the writes of history h left under gufi: the operation of the last
\* upsert, or nothing when gufi was never upserted or was deleted afterwards.
Latest(h, gufi) ==
  LET about == {i \in 1..Len(h) : h[i].gufi = gufi} IN
  IF about = {} THEN <<>>
  ELSE h[CHOOSE i \in about : \A j \in about : j <= i].operation

CallsIn(cs, fn) == LET is(c) == c.fn = fn IN SelectSeq(cs, is)

IsOperation(w, method) == req[w].ep = "client_operation" /\ req[w].method = method

C5_SyncsOwnMutationOnce ==
  \A w \in Workers :
    (pc[w] = "done" /\ req[w].ep = "client_operation" /\ ValidateControl(req[w].auth) = 0) =>
      /\ ( \/ req[w].method = "PUT"
           \/ req[w].method = "DELETE" /\ resp[w].code # HTTP_404_NOT_FOUND ) =>
           /\ Len(CallsIn(calls[w], "upsert_operator")) = 1
           /\ CallsIn(calls[w], "upsert_operator")[1].operations =
                {loc[w].written[g] : g \in DOMAIN loc[w].written}
      /\ (req[w].method = "DELETE" /\ resp[w].code = HTTP_404_NOT_FOUND) => calls[w] = <<>>

\* C6: the step in which the grid rejects a call of the sync ends the request
\* with the grid's status and leaves the registry alone; no step of a handler
\* after its own write changes the registry; upsert_operator was called once.
C6_RejectedSyncKeepsLocalWrite ==
  [][\A w \in Workers :
       /\ ( /\ pc[w] \in {"op_upsert_operator", "op_observers"} /\ pc'[w] = "done"
            /\ Len(calls'[w]) > Len(calls[w])
            /\ ~calls'[w][Len(calls'[w])].ok ) =>
            /\ resp'[w].code = calls'[w][Len(calls'[w])].code
            /\ operations' = operations
            /\ Len(CallsIn(calls'[w], "upsert_operator")) = 1
       /\ ( /\ pc[w] \in {"op_snapshot", "op_upsert_operator", "op_observers"}
            /\ (pc'[w] # pc[w] \/ loc'[w] # loc[w]) ) =>
            operations' = operations]_vars

C6_Witness ==
  \E w \in Workers :
    /\ pc[w] = "done" /\ IsOperation(w, "PUT") /\ resp[w].code \in GridErrors
    /\ ~calls[w][Len(calls[w])].ok
    /\ Lookup(operations, req[w].body[1].gufi) = req[w].body

\* ------------------------------------------------------- log properties
\* The record calls under key whose append has been done.
Recorded(key) ==
  {w \in Workers : /\ req[w].id = key
                   /\ \/ pc[w] = "log_release"
                      \/ pc[w] = "done" /\ resp[w].code = HTTP_204_NO_CONTENT}

History(key) == IF key \in DOMAIN notification_logs THEN notification_logs[key] ELSE <<>>

\* C10: under every key the log holds one entry for each record call that
\* has appended, and nothing else: none is lost and none appears twice.
C10_ConcurrentRecordsKeepEveryEntry ==
  \A key \in LogKeys :
    /\ Len(History(key)) = Cardinality(Recorded(key))
    /\ {History(key)[i].content : i \in 1..Len(History(key))} = Recorded(key)
    /\ \A w \in Recorded(key) : \E i \in 1..Len(History(key)) : History(key)[i] = loc[w].entry

\* Every worker has recorded under the same key.
C10_Witness ==
  \E key \in LogKeys :
    /\ Recorded(key) = Workers
    /\ \A w \in Workers : pc[w] = "done"
    /\ Len(History(key)) = NumWorkers

\* Worker w runs clear() in this step.
Clears(w) == pc[w] = "clear_run" /\ pc'[w] = "done"

\* C11 as stated: clear() leaves the log empty and, when the log holds the
\* entries of N record calls under one key, returns N.
C11_ClearReturnsEntryCount ==
  [][\A w \in Workers : Clears(w) =>
       /\ notification_logs' = EmptyDict
       /\ \A key \in LogKeys :
            DOMAIN notification_logs = {key} =>
              resp'[w].body = <<Len(notification_logs[key])>>]_vars

\* C11, amended: clear() runs while it holds the lock, leaves the log empty
\* and returns the number of keys it removed.
C11_ClearReturnsKeyCount ==
  [][\A w \in Workers : Clears(w) =>
       /\ notification_lock = w
       /\ notification_logs' = EmptyDict
       /\ resp'[w] = Response(HTTP_200_OK, <<Cardinality(DOMAIN notification_logs)>>)]_vars

\* A log with two entries under its only key was cleared, and clear() returned 1.
C11_Witness ==
  \E w \in Workers :
    /\ pc[w] = "done" /\ req[w].ep = "notifications" /\ req[w].method = "DELETE"
    /\ resp[w] = Response(HTTP_200_OK, <<1>>)
    /\ notification_logs = EmptyDict
    /\ \E logs \in log_states : DOMAIN logs = {"k1"} /\ Len(logs["k1"]) = 2

\* ------------------------------------------ access control properties
\* The endpoints of the control interface.
ControlEndpoints ==
  {"status", "alwayslisten", "operator_entries", "client_operation", "client_uvr",
   "notifications_key", "notifications"}

\* The shared state of the USS and of the grid.
shared == << operations, uvrs, notification_logs, always_listen, grid_uvrs,
             grid_operator_entry >>

\* C12: a request to a control endpoint whose Authorization header is missing
\* ends at once as unauthenticated, and one whose header differs from the
\* configured secret as forbidden; the response has no body, no grid or peer
\* call is made and the shared state is unchanged.
C12_ControlEndpointsRequireCredential ==
  [][\A w \in Workers :
       ( /\ pc[w] = "idle" /\ pc'[w] # "idle"
         /\ req'[w].ep \in ControlEndpoints
         /\ req'[w].auth # <<control_authorization>> ) =>
         /\ pc'[w] = "done"
         /\ resp'[w] = Response(IF req'[w].auth = <<>> THEN HTTP_401_UNAUTHORIZED
                                ELSE HTTP_403_FORBIDDEN, <<>>)
         /\ calls'[w] = <<>>
         /\ shared' = shared]_vars

\* The token and the allowed scopes of a token check.
CheckedToken(w) == req[w].auth[1]

CheckedScopes(w) == req[w].body[1]

\* C13: the outcome of the token check follows from the token: none, or an
\* expired one, is unauthenticated; a malformed one is a bad request; one
\* signed with the wrong key is rejected; a valid one passes when no scopes
\* are required, and when scopes are required it passes if it grants one of
\* them and is forbidden otherwise.
C13_TokenOutcomeFollowsKind ==
  \A w \in Workers :
    (pc[w] = "done" /\ req[w].ep = "validate_access_token") =>
      LET token == CheckedToken(w)
          required == CheckedScopes(w)
          outcome == resp[w].code
      IN /\ token.header = "none" => outcome = HTTP_401_UNAUTHORIZED
         /\ token.kind = "expired" => outcome = HTTP_401_UNAUTHORIZED
         /\ token.kind = "wrong_key" => outcome # 0
         /\ token.kind = "malformed" =>
              outcome = HTTP_400_BAD_REQUEST /\ outcome # HTTP_401_UNAUTHORIZED
         /\ (token.kind = "valid" /\ required = <<>>) => outcome = 0
         /\ (token.kind = "valid" /\ required # <<>>) =>
              outcome = IF \E scope \in token.scope : scope \in required[1]
                          THEN 0 ELSE HTTP_403_FORBIDDEN

\* A valid token whose scopes miss the required ones was rejected as forbidden.
C13_Witness ==
  \E w \in Workers :
    /\ pc[w] = "done" /\ req[w].ep = "validate_access_token"
    /\ CheckedToken(w).kind = "valid" /\ CheckedToken(w).scope = {"s2"}
    /\ CheckedScopes(w) = << {"s1"} >>
    /\ resp[w].code = HTTP_403_FORBIDDEN

\* ------------------------------------------------ slippy cell properties
\* A string of the form integer/integer/integer.
IsSlippyCell(cell) ==
  \E i, j \in 1..Len(cell) :
    /\ i < j
    /\ cell[i] = "/" /\ cell[j] = "/"
    /\ IsDigits(SubSeq(cell, 1, i - 1))
    /\ IsDigits(SubSeq(cell, i + 1, j - 1))
    /\ IsDigits(SubSeq(cell, j + 1, Len(cell)))

\* Request r is an authorized request with a list of cells, one of which is
\* not a slippy cell.
HasInvalidCell(r) ==
  /\ \/ r.ep = "alwayslisten" /\ r.method = "PUT"
     \/ r.ep = "operator_entries"
  /\ r.auth = <<control_authorization>>
  /\ \E i \in 1..Len(r.body[1]) : ~IsSlippyCell(r.body[1][i])

\* C14: a request whose list holds a cell that is not integer/integer/integer
\* makes no grid call, ends as a bad request, and no step of its handler
\* changes the always-listen list.
C14_InvalidCellRejectedBeforeGridCall ==
  [][\A w \in Workers :
       HasInvalidCell(req'[w]) =>
         /\ calls'[w] = <<>>
         /\ pc'[w] = "done" => resp'[w].code = HTTP_400_BAD_REQUEST
         /\ pc'[w] # pc[w] => always_listen' = always_listen]_vars

\* --------------------------------------------- UVR lifecycle properties
\* Workers a and b have both published the same UVR, the grid accepted both
\* publishes, and no other request has been received.
PublishedTwice(a, b) ==
  /\ a # b
  /\ pc[a] = "done" /\ pc[b] = "done"
  /\ IsUvrPut(a) /\ IsUvrPut(b)
  /\ resp[a].code = HTTP_200_OK /\ resp[b].code = HTTP_200_OK
  /\ req[a].id = req[b].id /\ req[a].body = req[b].body
  /\ req[a].body[1].message_id = req[a].id
  /\ \A w \in Workers \ {a, b} : pc[w] = "idle"

\* C15: when the same UVR has been published twice and the grid accepted
\* both, the cached UVR is the grid's UVR, and both are the UVR each of the
\* two publishes returned.
C15_RepublishConverges ==
  \A a, b \in Workers :
    PublishedTwice(a, b) =>
      /\ req[a].id \in DOMAIN uvrs /\ req[a].id \in DOMAIN grid_uvrs
      /\ uvrs[req[a].id] = grid_uvrs[req[a].id]
      /\ uvrs[req[a].id] = resp[a].body[1].uvr
      /\ uvrs[req[a].id] = resp[b].body[1].uvr

\* A UVR has been published twice, with a geography other than the one of
\* the UVR published earlier.
C15_Witness ==
  \E a, b \in Workers :
    /\ PublishedTwice(a, b)
    /\ req[a].id = <<"x">>
    /\ req[a].body[1].geography # PublishedUvr.geography
    /\ uvrs[<<"x">>].geography = req[a].body[1].geography

\* ------------------------------------------- registry mirror properties
\* The upsert or delete of worker w has returned success: its write and its
\* grid sync are done.
Synced(w) ==
  /\ pc[w] = "done" /\ req[w].ep = "client_operation"
  /\ req[w].method \in {"PUT", "DELETE"}
  /\ resp[w].code \in {HTTP_200_OK, HTTP_204_NO_CONTENT}

\* The request of worker w has returned without writing the registry.
LeftRegistryAlone(w) ==
  /\ pc[w] = "done" /\ req[w].ep = "client_operation"
  /\ \/ req[w].method = "GET"
     \/ resp[w].code \in {HTTP_401_UNAUTHORIZED, HTTP_403_FORBIDDEN, HTTP_404_NOT_FOUND}

\* C16: when every upsert and delete received has completed with a successful
\* grid sync, the Operator entry the grid accepted last holds exactly the
\* operations of the registry.
C16_GridEntryMirrorsRegistry ==
  ( /\ \A w \in Workers : pc[w] = "idle" \/ Synced(w) \/ LeftRegistryAlone(w)
    /\ \E w \in Workers : Synced(w) ) =>
    grid_operator_entry = {operations[g] : g \in DOMAIN operations}

\* ------------------------------------------------- log read properties
\* The request of worker w reads the log: fetch by key, or fetchAll.
IsLogRead(w) ==
  \/ req[w].ep = "notifications_key"
  \/ req[w].ep = "notifications" /\ req[w].method = "GET"

\* The next step of worker w reads notification_logs.
AboutToRead(w) ==
  \/ pc[w] \in {"fetch_read", "detailed_read", "compact_items"}
  \/ pc[w] = "compact_iter" /\ loc[w].pending # {}

\* What the read request of worker w answers when the log is logs.
ReadOf(w, logs) ==
  IF req[w].ep = "notifications_key"
    THEN IF req[w].id \in DOMAIN logs
           THEN Response(HTTP_200_OK, <<logs[req[w].id]>>)
           ELSE Response(HTTP_404_NOT_FOUND, <<>>)
    ELSE IF StringToBool(ArgOr(req[w].body[1].details, <<"f", "a", "l", "s", "e">>))
           THEN Response(HTTP_200_OK, <<DetailedView(logs, req[w].body[1])>>)
           ELSE Response(HTTP_200_OK, <<[key \in DOMAIN logs |-> CompactLines(logs[key])]>>)

\* The answer of worker w is the log as it was at one instant.
ReadIsSnapshot(w) == \E logs \in log_states : resp[w] = ReadOf(w, logs)

\* C17: a request that reads the log holds notification_lock whenever it is
\* about to read it, and what it answers is the log as it was at one instant.
C17_ReadsHoldTheLock ==
  \A w \in DOMAIN pc :
    IsLogRead(w) =>
      /\ AboutToRead(w) => notification_lock = w
      /\ pc[w] = "done" => ReadIsSnapshot(w)

\* ------------------------------------------ peer notification properties
\* The sources of the peer-facing PUT endpoints.
PeerSources ==
  {"uvrs", "utm_messages", "uss", "negotiations", "positions", "operations",
   "enhanced_operations"}

\* The places under key of the entries that the request of worker w appended.
AppendedBy(w, key) ==
  {i \in 1..Len(History(key)) : History(key)[i].content = w}

\* C18: a peer notification that has returned with a token that is missing,
\* expired or undecodable was refused and appended nothing; one with an
\* accepted token was answered 204 and appended exactly one entry, under the
\* identifier of its path.
C18_LogsOnlyAfterTokenCheck ==
  \A w \in Workers :
    (pc[w] = "done" /\ req[w].ep \in PeerSources) =>
      IF req[w].auth[1].header # "none" /\ req[w].auth[1].kind = "valid"
        THEN /\ resp[w].code = HTTP_204_NO_CONTENT
             /\ Cardinality(AppendedBy(w, req[w].id)) = 1
             /\ \A key \in LogKeys \ {req[w].id} : AppendedBy(w, key) = {}
        ELSE /\ resp[w].code \in {HTTP_400_BAD_REQUEST, HTTP_401_UNAUTHORIZED}
             /\ \A key \in LogKeys : AppendedBy(w, key) = {}

\* A notification with an expired token was refused after one with a valid
\* token had been logged under the same identifier.
C18_Witness ==
  \E a, b \in Workers :
    /\ pc[a] = "done" /\ pc[b] = "done"
    /\ req[a].ep \in PeerSources /\ req[b].ep = req[a].ep /\ req[b].id = req[a].id
    /\ req[a].auth[1].kind = "valid" /\ req[b].auth[1].kind = "expired"
    /\ resp[b].code = HTTP_401_UNAUTHORIZED
    /\ Len(History(req[a].id)) = 1 /\ AppendedBy(a, req[a].id) = {1}

\* The history under key in the log logs.
HistoryIn(logs, key) == IF key \in DOMAIN logs THEN logs[key] ELSE <<>>

\* later is earlier with one entry added at its end.
ExtendsByOne(earlier, later) ==
  /\ Len(later) = Len(earlier) + 1
  /\ SubSeq(later, 1, Len(earlier)) = earlier

\* The request of worker w takes a step.
Moves(w) == pc'[w] # pc[w] \/ loc'[w].result # loc[w].result

\* C19: in every step the history under each key is unchanged or has one new
\* entry at its end, unless the step is a clear(), which empties the whole
\* log; and no step of a request that reads the log changes the log.
C19_LogIsAppendOnly ==
  [][/\ \/ \A key \in LogKeys :
             \/ HistoryIn(notification_logs', key) = HistoryIn(notification_logs, key)
             \/ ExtendsByOne(HistoryIn(notification_logs, key),
                             HistoryIn(notification_logs', key))
        \/ /\ \E w \in Workers : Clears(w)
           /\ notification_logs' = EmptyDict
     /\ \A w \in Workers :
          (IsLogRead(w) /\ Moves(w)) => notification_logs' = notification_logs]_vars

\* A notification was appended to a history that held entries already, and
\* the log was read afterwards with the content of the entries left out.
C19_Witness ==
  \E a, b \in Workers, key \in LogKeys :
    /\ pc[a] = "done" /\ req[a].ep \in PeerSources /\ req[a].id = key
    /\ Len(History(key)) >= 2
    /\ History(key)[Len(History(key))].content = a
    /\ pc[b] = "done" /\ req[b].ep = "notifications" /\ req[b].method = "GET"
    /\ resp[b].body = <<ExcludeContent(notification_logs)>>

\* The grid has accepted a call of worker w to fn.
Accepted(w, fn) == \E i \in 1..Len(calls[w]) : calls[w][i].fn = fn /\ calls[w][i].ok

\* Worker w is on the path of a delete that did not find its UVR cached.
OnUncachedPath(w) ==
  IsUvrDelete(w) /\ pc[w] \in {"uvr_lookup", "uvr_remove_uncached"}

\* C20: a message_id enters the cache only in a step of a publish of that
\* message_id whose upsert the grid accepted; it leaves the cache only in a
\* step of a delete of that message_id that found it cached and whose
\* withdrawal the grid accepted; a step of a delete on the path of the area
\* lookup leaves the cache as it is.
C20_CacheFollowsLifecycle ==
  [][/\ \A id \in MsgIds :
          /\ (id \notin DOMAIN uvrs /\ id \in DOMAIN uvrs') =>
               \E w \in Workers :
                 /\ pc'[w] # pc[w] /\ IsUvrPut(w) /\ req[w].id = id
                 /\ Accepted(w, "upsert_uvr")
          /\ (id \in DOMAIN uvrs /\ id \notin DOMAIN uvrs') =>
               \E w \in Workers :
                 /\ pc'[w] # pc[w] /\ IsUvrDelete(w) /\ req[w].id = id
                 /\ Accepted(w, "remove_uvr")
                 /\ CallsTo(w, "get_operators_by_area") = <<>>
     /\ \A w \in Workers :
          (OnUncachedPath(w) /\ pc'[w] # pc[w]) => uvrs' = uvrs]_vars

\* A UVR was published and is cached; another one was withdrawn by way of
\* the area lookup, and the cache holds the published one only.
C20_Witness ==
  \E a, b \in Workers :
    /\ pc[a] = "done" /\ IsUvrPut(a) /\ resp[a].code = HTTP_200_OK
    /\ pc[b] = "done" /\ IsUvrDelete(b) /\ resp[b].code = HTTP_204_NO_CONTENT
    /\ req[b].id # req[a].id
    /\ CallsTo(b, "get_operators_by_area") # <<>> /\ Accepted(b, "remove_uvr")
    /\ DOMAIN uvrs = {req[a].id}

====
